---- MODULE Spec2Model ----
(***************************************************************************)
(* Card synchronisation engine of TitleCardMaker: modules/PlexInterface.py *)
(*                                                                         *)
(* The model follows one PlexInterface over its life: construction (with   *)
(* the import of the old loaded_cards.yml), and the two public passes,     *)
(* modify_unwatched_episodes and set_title_cards_for_series, for one       *)
(* series of one library.  The loaded-card database (TinyDB, loaded.json)  *)
(* and the old YAML file are durable; everything else is rebuilt when the  *)
(* process starts.                                                         *)
(*                                                                         *)
(* Strings the code inspects (the unwatched action, the "season-episode"   *)
(* keys) are sequences of one-character strings, so that lower(), the      *)
(* substring test, split('-') and int() are computed as Python computes    *)
(* them.  Spoiler tags, library and series names are only compared for     *)
(* equality and are plain strings.                                         *)
(***************************************************************************)
EXTENDS Integers, Sequences, FiniteSets, TLC

(***************************************************************************)
(* Bounds of the model.                                                    *)
(***************************************************************************)
\* episodes 1..MaxEpisode of season 1 of the series being synchronised
MaxEpisode == 2
\* a title card file has a size in 0..MaxSize
MaxSize == 1
\* the old YAML file records sizes in 1..MaxOldSize
MaxOldSize == 1

\* Python's None, where a spoiler tag is expected
None == "None"

\* an optional value is a sequence of at most one element: Nothing is None
Nothing == <<>>
Some(x) == <<x>>

(***************************************************************************)
(* Strings as sequences of characters.                                     *)
(***************************************************************************)
DigitChars == <<"0", "1", "2", "3", "4", "5", "6", "7", "8", "9">>

\* str(n) for a natural number, as the f-string of line 291 formats it
RECURSIVE Str(_)
Str(n) ==
    IF n < 10 THEN <<DigitChars[n + 1]>>
    ELSE Str(n \div 10) \o <<DigitChars[(n % 10) + 1]>>

\* f'{parentIndex}-{index}'
ep_key(season, episode) == Str(season) \o <<"-">> \o Str(episode)

\* str.split(sep) for a one-character separator: the list of the pieces
RECURSIVE Split(_, _)
Split(s, sep) ==
    IF \A i \in 1..Len(s) : s[i] # sep THEN <<s>>
    ELSE LET i == CHOOSE j \in 1..Len(s) :
                      s[j] = sep /\ \A k \in 1..(j - 1) : s[k] # sep
         IN  <<SubSeq(s, 1, i - 1)>> \o Split(SubSeq(s, i + 1, Len(s)), sep)

IsDigit(c) == \E d \in 1..10 : DigitChars[d] = c

DigitValue(c) == (CHOOSE d \in 1..10 : DigitChars[d] = c) - 1

\* int(s) for a string of decimal digits; ValueError is -1
RECURSIVE ToInt(_)
ToInt(s) ==
    IF Len(s) = 0 \/ \E i \in 1..Len(s) : ~IsDigit(s[i]) THEN -1
    ELSE IF Len(s) = 1 THEN DigitValue(s[1])
    ELSE 10 * ToInt(SubSeq(s, 1, Len(s) - 1)) + DigitValue(s[Len(s)])

\* str.lower() on the letters the model uses
Lower(c) ==
    CASE c = "A" -> "a" [] c = "B" -> "b" [] c = "L" -> "l"
      [] c = "U" -> "u" [] c = "R" -> "r" [] c = "T" -> "t"
      [] OTHER -> c

lower(s) == [i \in 1..Len(s) |-> Lower(s[i])]

\* Python's  sub in s  for strings
Contains(sub, s) ==
    \E i \in 0..(Len(s) - Len(sub)) : SubSeq(s, i + 1, i + Len(sub)) = sub

(***************************************************************************)
(* Class constants of PlexInterface.                                       *)
(***************************************************************************)
ignore == <<"i", "g", "n", "o", "r", "e">>
blur == <<"b", "l", "u", "r">>
art == <<"a", "r", "t">>
blur_all == <<"b", "l", "u", "r", "_", "a", "l", "l">>
art_all == <<"a", "r", "t", "_", "a", "l", "l">>

\* VALID_UNWATCHED_ACTIONS taking "none" for an action as well
VALID_UNWATCHED_ACTIONS_and_none ==
    {ignore, blur, art, blur_all, art_all, <<"n", "o", "n", "e">>}

VALID_UNWATCHED_ACTIONS == {ignore, blur, art, blur_all, art_all}

\* stop_after_attempt(5)
stop_after_attempt == 5

(***************************************************************************)
(* The series being synchronised, and the libraries and series the old     *)
(* YAML file can mention.                                                  *)
(***************************************************************************)
LIBRARY == "TV"
OTHER_LIBRARY == "Anime"
SERIES == "Show (2020)"
OTHER_SERIES == "Other (2021)"

\* an Episode object is identified by its episode_info numbers
Episode(season, episode) ==
    [season_number |-> season, episode_number |-> episode]

Episodes == {Episode(1, n) : n \in 1..MaxEpisode}

\* series.episodes(): the episodes of the series on Plex, in index order
plex_episodes == [n \in 1..MaxEpisode |-> Episode(1, n)]

\* episode.destination.stat().st_size, or NoFile when destination is None or
\* does not exist
Sizes == 0..MaxSize
NoFile == -1
Destinations == Sizes \cup {NoFile}

SpoilerTags == {"spoiled", "blur", "art"}

(***************************************************************************)
(* TinyDB: the database is the sequence of its documents.                  *)
(***************************************************************************)
\* __get_condition: the query of a series (episode is Nothing), or of one
\* episode of it
get_condition(library_name, full_name, episode) ==
    [library |-> library_name, series |-> full_name, episode |-> episode]

\* Test without the library and the series of the condition
Test_any_series(condition, doc) ==
    condition.episode # Nothing =>
        /\ doc.season = condition.episode[1].season_number
        /\ doc.episode = condition.episode[1].episode_number

\* whether a document satisfies a condition
Test(condition, doc) ==
    /\ doc.library = condition.library
    /\ doc.series = condition.series
    /\ condition.episode # Nothing =>
          /\ doc.season = condition.episode[1].season_number
          /\ doc.episode = condition.episode[1].episode_number

\* TinyDB.search: every document that satisfies the condition
search(docs, condition) == SelectSeq(docs, LAMBDA d : Test(condition, d))

\* TinyDB.get: the first document that satisfies the condition, or None
get(docs, condition) ==
    IF search(docs, condition) = <<>> THEN Nothing
    ELSE Some(Head(search(docs, condition)))

\* update removing the documents that match
update_removing(docs, fields, condition) ==
    SelectSeq(docs, LAMBDA d : ~Test(condition, d))

\* TinyDB.update: the fields are overwritten in every document that matches
update(docs, fields, condition) ==
    [i \in 1..Len(docs) |->
        IF Test(condition, docs[i])
        THEN [f \in DOMAIN docs[i] |->
                 IF f \in DOMAIN fields THEN fields[f] ELSE docs[i][f]]
        ELSE docs[i]]

\* TinyDB.insert
insert(docs, doc) == Append(docs, doc)

\* TinyDB.insert_multiple
insert_multiple(docs, entries) == docs \o entries

\* __get_loaded_episode: the first entry of the list with the episode's index
get_loaded_episode(loaded, episode) ==
    LET hits == SelectSeq(loaded, LAMBDA entry :
                    /\ entry.season = episode.season_number
                    /\ entry.episode = episode.episode_number)
    IN  IF hits = <<>> THEN Nothing ELSE Some(Head(hits))

(***************************************************************************)
(* The old loaded_cards.yml: sizes[library][series]["season-episode"].     *)
(* A file is absent, unreadable (open or safe_load fails, or it has no     *)
(* 'sizes' key), or a mapping, given as its rows in file order.            *)
(***************************************************************************)
OldRow(library_name, series_name, episode_key, filesize) ==
    [library |-> library_name, series |-> series_name,
     episode_key |-> episode_key, filesize |-> filesize]

\* the places of a mapping: every episode of the series, and one episode of
\* another series in another library
OldSlots ==
    [n \in 1..(MaxEpisode + 1) |->
        IF n <= MaxEpisode
        THEN [library |-> LIBRARY, series |-> SERIES, episode_key |-> ep_key(1, n)]
        ELSE [library |-> OTHER_LIBRARY, series |-> OTHER_SERIES,
              episode_key |-> ep_key(1, 1)]]

\* keys that are not "season-episode"
BadKeys == {<<"1", "-", "x">>, <<"1">>}

\* the mappings: each episode of the series absent (0) or with a size, the
\* episode of the other series with a size, then at most one row with a
\* malformed key
OldMappings ==
    LET fills == {f \in [1..(MaxEpisode + 1) -> 0..MaxOldSize] :
                     f[MaxEpisode + 1] # 0}
        rows(f) ==
            LET kept == SelectSeq([n \in 1..(MaxEpisode + 1) |-> n],
                                  LAMBDA n : f[n] # 0)
            IN  [i \in 1..Len(kept) |->
                    OldRow(OldSlots[kept[i]].library, OldSlots[kept[i]].series,
                           OldSlots[kept[i]].episode_key, f[kept[i]])]
    IN  {rows(f) : f \in fills}
        \cup {Append(rows(f), OldRow(LIBRARY, SERIES, k, 1)) :
                 f \in fills, k \in BadKeys}

OldFiles ==
    {[exists |-> FALSE, readable |-> FALSE, sizes |-> <<>>],
     [exists |-> TRUE, readable |-> FALSE, sizes |-> <<>>]}
    \cup {[exists |-> TRUE, readable |-> TRUE, sizes |-> m] : m \in OldMappings}

\* line 71: season_num, episode_num = map(int, episode_key.split('-'))
KeyParses(episode_key) ==
    /\ Len(Split(episode_key, "-")) = 2
    /\ ToInt(Split(episode_key, "-")[1]) >= 0
    /\ ToInt(Split(episode_key, "-")[2]) >= 0

\* whether lines 59-71 can read the old file: it opens, it has 'sizes', and
\* every episode key is "season-episode"
Parses(file) ==
    /\ file.readable
    /\ \A i \in 1..Len(file.sizes) : KeyParses(file.sizes[i].episode_key)

\* OldEntry with the two numbers of the key taken the other way round
OldEntry_swapped(row) ==
    [library |-> row.library,
     series |-> row.series,
     season |-> ToInt(Split(row.episode_key, "-")[2]),
     episode |-> ToInt(Split(row.episode_key, "-")[1]),
     filesize |-> row.filesize,
     spoiler |-> "spoiled"]

\* lines 72-79: the DB-equivalent of a row
OldEntry(row) ==
    [library |-> row.library,
     series |-> row.series,
     season |-> ToInt(Split(row.episode_key, "-")[1]),
     episode |-> ToInt(Split(row.episode_key, "-")[2]),
     filesize |-> row.filesize,
     spoiler |-> "spoiled"]

\* lines 66-79: the list of entries built from the mapping
OldEntries(sizes) == [i \in 1..Len(sizes) |-> OldEntry(sizes[i])]

(***************************************************************************)
(* modify_unwatched_episodes: the spoil characteristics, lines 275-317.    *)
(* unwatched is the lowered action, isWatched is plex_episode.isWatched,   *)
(* spoiler_status is the loaded entry's 'spoiler', None when not loaded.   *)
(***************************************************************************)
all_spoiler_free(unwatched) == unwatched \in {art_all, blur_all}

all_spoiler(unwatched) == unwatched = ignore

\* spoil_type with the action compared to 'art' instead of searched for it
spoil_type_exact(unwatched) ==
    IF unwatched = ignore THEN "spoiled"
    ELSE IF unwatched = art THEN "art" ELSE "blur"

spoil_type(unwatched) ==
    IF unwatched = ignore THEN "spoiled"
    ELSE IF Contains(art, unwatched) THEN "art" ELSE "blur"

spoiler_free(unwatched, isWatched) == unwatched # ignore /\ ~isWatched

spoiler(unwatched, isWatched) == isWatched /\ ~all_spoiler_free(unwatched)

\* line 307: the Episode needs to be spoiler-free
needs_spoiler_free(unwatched, isWatched) ==
    all_spoiler_free(unwatched) \/ spoiler_free(unwatched, isWatched)

\* line 316: the Episode needs to be (or become) a spoiler
needs_spoiler(unwatched, isWatched) ==
    all_spoiler(unwatched) \/ spoiler(unwatched, isWatched)

\* the class of card the pass asks for: lines 307-317
target_class(unwatched, isWatched) ==
    IF needs_spoiler_free(unwatched, isWatched) THEN spoil_type(unwatched)
    ELSE IF needs_spoiler(unwatched, isWatched) THEN "spoiled"
    ELSE None

\* delete_and_reset without the test of lines 307-313
delete_and_reset_to_spoiler(unwatched, isWatched, spoiler_status) ==
    /\ needs_spoiler(unwatched, isWatched)
    /\ spoiler_status # "spoiled"

\* delete_and_reset whatever the loaded class
delete_and_reset_always(unwatched, isWatched, spoiler_status) == TRUE

\* lines 306-317
delete_and_reset(unwatched, isWatched, spoiler_status) ==
    \/ /\ needs_spoiler_free(unwatched, isWatched)
       /\ (spoiler_status = "spoiled" \/ spoiler_status # spoil_type(unwatched))
    \/ /\ needs_spoiler(unwatched, isWatched)
       /\ spoiler_status # "spoiled"

\* Episode.make_spoiler_free(unwatched): the class the card is then made in
make_spoiler_free(unwatched) ==
    IF Contains(art, unwatched) THEN "art" ELSE "blur"

(***************************************************************************)
(* __filter_loaded_cards, lines 156-182: the episodes of the map that have *)
(* a card file and are not loaded with that file's size.                   *)
(***************************************************************************)
\* keeps without the comparison of line 175: only episodes never loaded
keeps_never_loaded(series, episode, size) ==
    /\ size # NoFile
    /\ \/ series = <<>>
       \/ get_loaded_episode(series, episode) = Nothing

\* keeps without any look at the loaded map: every episode with a card
keeps_every_card(series, episode, size) == size # NoFile

\* keeps without lines 171-172: an episode the loaded series has no entry for
\* is left out
keeps_first_sync_only(series, episode, size) ==
    /\ size # NoFile
    /\ \/ series = <<>>
       \/ /\ get_loaded_episode(series, episode) # Nothing
          /\ get_loaded_episode(series, episode)[1].filesize # size

\* lines 162-180 for one episode; series is the result of line 157
keeps(series, episode, size) ==
    /\ size # NoFile
    /\ \/ series = <<>>
       \/ get_loaded_episode(series, episode) = Nothing
       \/ get_loaded_episode(series, episode)[1].filesize # size

filter_loaded_cards(docs, library_name, full_name, map, sizes) ==
    LET series == search(docs, get_condition(library_name, full_name, Nothing))
    IN  {episode \in map : keeps(series, episode, sizes[episode])}

\* __get_library, lines 194-198: the section, or None after NotFound
get_library(has_section, library_name) ==
    IF has_section THEN library_name ELSE None

(***************************************************************************)
(* __get_series, lines 213-239.  series_info has tvdb_id and tmdb_id       *)
(* (given or None); found tells, for each lookup, whether the library      *)
(* finds a show (otherwise it raises NotFound).  The result is the lookups *)
(* made, in order, and the lookup whose show is returned (None if none).   *)
(***************************************************************************)
\* get_series trying the full name before the name
get_series_full_name_first(found, series_info) ==
    LET by_tvdb == IF series_info.tvdb_id THEN <<"tvdb_id">> ELSE <<>>
        by_tmdb == IF series_info.tmdb_id THEN <<"tmdb_id">> ELSE <<>>
    IN  IF series_info.tvdb_id /\ found.tvdb_id
        THEN [lookups |-> by_tvdb, show |-> "tvdb_id"]
        ELSE IF series_info.tmdb_id /\ found.tmdb_id
        THEN [lookups |-> by_tvdb \o by_tmdb, show |-> "tmdb_id"]
        ELSE IF found.full_name
        THEN [lookups |-> by_tvdb \o by_tmdb \o <<"full_name">>,
              show |-> "full_name"]
        ELSE IF found.name
        THEN [lookups |-> by_tvdb \o by_tmdb \o <<"full_name", "name">>,
              show |-> "name"]
        ELSE [lookups |-> by_tvdb \o by_tmdb \o <<"full_name", "name">>,
              show |-> None]

get_series(found, series_info) ==
    LET by_tvdb == IF series_info.tvdb_id THEN <<"tvdb_id">> ELSE <<>>
        by_tmdb == IF series_info.tmdb_id THEN <<"tmdb_id">> ELSE <<>>
    IN  IF series_info.tvdb_id /\ found.tvdb_id
        THEN [lookups |-> by_tvdb, show |-> "tvdb_id"]
        ELSE IF series_info.tmdb_id /\ found.tmdb_id
        THEN [lookups |-> by_tvdb \o by_tmdb, show |-> "tmdb_id"]
        ELSE IF found.name
        THEN [lookups |-> by_tvdb \o by_tmdb \o <<"name">>, show |-> "name"]
        ELSE IF found.full_name
        THEN [lookups |-> by_tvdb \o by_tmdb \o <<"name", "full_name">>,
              show |-> "full_name"]
        ELSE [lookups |-> by_tvdb \o by_tmdb \o <<"name", "full_name">>,
              show |-> None]

\* the identifiers of a SeriesInfo: whether tvdb_id and tmdb_id are given
SeriesInfos == [tvdb_id : BOOLEAN, tmdb_id : BOOLEAN]

\* what a library finds under each of the four lookups
Founds == [tvdb_id : BOOLEAN, tmdb_id : BOOLEAN, name : BOOLEAN,
           full_name : BOOLEAN]

(***************************************************************************)
(* __retry_upload, lines 330-341, as line 391 calls it.                    *)
(***************************************************************************)
\* the positional arguments of the call of line 391, self included
retry_upload_arguments == 2

\* the parameters of the function of line 332: self, plex_episode, filepath
retry_upload_parameters == <<"self", "plex_episode", "filepath">>

\* the name line 341 calls uploadPoster on
uploadPoster_receiver == "pl_episode"

\* one attempt: the call binds its arguments, the body finds its receiver,
\* and Plex takes the poster; anything else raises
attempt_succeeds(plex_accepts) ==
    /\ retry_upload_arguments = Len(retry_upload_parameters)
    /\ \E i \in 1..Len(retry_upload_parameters) :
           retry_upload_parameters[i] = uploadPoster_receiver
    /\ plex_accepts

\* @retry(stop=stop_after_attempt(5)): the attempts follow each other until
\* one succeeds or the fifth has raised; Plex refuses the first `refusals`
\* posters it is sent.  The result is the attempts made and whether the call
\* returned (otherwise it raises RetryError)
\* retry_from stopping one attempt late
RECURSIVE retry_from_one_more(_, _)
retry_from_one_more(attempt_number, refusals) ==
    IF attempt_succeeds(attempt_number > refusals)
    THEN [attempts |-> attempt_number, returned |-> TRUE]
    ELSE IF attempt_number > stop_after_attempt
    THEN [attempts |-> attempt_number, returned |-> FALSE]
    ELSE retry_from_one_more(attempt_number + 1, refusals)

RECURSIVE retry_from(_, _)
retry_from(attempt_number, refusals) ==
    IF attempt_succeeds(attempt_number > refusals)
    THEN [attempts |-> attempt_number, returned |-> TRUE]
    ELSE IF attempt_number >= stop_after_attempt
    THEN [attempts |-> attempt_number, returned |-> FALSE]
    ELSE retry_from(attempt_number + 1, refusals)

\* retry_upload starting over once when the fifth attempt has raised
retry_upload_restarted(refusals) ==
    IF retry_from(1, refusals).returned
    THEN retry_from(1, refusals)
    ELSE [attempts |-> stop_after_attempt + retry_from(1, 0).attempts,
          returned |-> retry_from(1, 0).returned]

retry_upload(refusals) == retry_from(1, refusals)

\* lines 401-417: the loaded map after a successful upload of the card
record_upload(docs, library_name, full_name, episode, size, tag) ==
    LET condition == get_condition(library_name, full_name, Some(episode))
    IN  IF get(docs, condition) # Nothing
        THEN update(docs, [filesize |-> size, spoiler |-> tag], condition)
        ELSE insert(docs, [library |-> library_name,
                           series |-> full_name,
                           season |-> episode.season_number,
                           episode |-> episode.episode_number,
                           filesize |-> size,
                           spoiler |-> tag])

(***************************************************************************)
(* State.                                                                  *)
(***************************************************************************)
VARIABLES
    pc,                 \* where the process is: "off", "import", "idle",
                        \* "modify", "reset", "upload", "ValueError"
    db,                 \* loaded.json: the documents of the TinyDB
    old_file,           \* loaded_cards.yml
    destination,        \* size of each Episode's card file, or NoFile
    isWatched,          \* Plex: whether each episode is watched
    episode_spoil_type, \* Episode._spoil_type of each Episode object
    episode_map,        \* argument of the running pass
    unwatched,          \* the lowered action of the running spoiler pass
    loaded_series,      \* modify_unwatched_episodes: result of line 284
    trace,              \* what the spoiler pass decided, per episode
    deleted,            \* episodes the spoiler pass called delete_card on
    filtered_episodes,  \* set_title_cards_for_series: result of line 361
    db_before,          \* the database when the upload pass began
    attempts,           \* upload attempts of the upload pass, per episode
    accepted,           \* episodes Plex would take a poster for in 5 attempts
    errors,             \* episodes the upload pass logged an error for
    todo,               \* the Plex episodes the loop has still to visit
    sync,               \* two syncs in a row: the action, the passes begun
    sections,           \* __get_library: whether Plex has the library
    found,              \* __get_series: what the library finds
    series_info,        \* __get_series: the identifiers given
    series,             \* __get_series: the lookups made and the result
    workers             \* two processes at work on one episode, each with
                        \* its position and its locals

vars ==
    <<pc, db, old_file, destination, isWatched, episode_spoil_type,
      episode_map, unwatched, loaded_series, trace, deleted,
      filtered_episodes, db_before, attempts, accepted, errors, todo, sync,
      sections, found, series_info, series, workers>>

\* the state of the outside world
world == <<destination, isWatched>>

\* the locals of the spoiler pass
modify_vars == <<unwatched, loaded_series, trace, deleted>>

\* the locals of the upload pass
upload_vars == <<filtered_episodes, db_before, attempts, accepted, errors>>

\* the variables of library and series resolution
resolve_vars == <<sections, found, series_info, series>>

\* the actions a user can give; lower() makes "Blur" the action blur
Actions ==
    VALID_UNWATCHED_ACTIONS \cup {<<"B", "l", "u", "r">>, <<"n", "o", "n", "e">>}

NoOldFile == [exists |-> FALSE, readable |-> FALSE, sizes |-> <<>>]

NoAttempts == [e \in Episodes |-> 0]

NotResolved == [lookups |-> <<>>, show |-> None]

\* no pass is running: the locals of the passes are gone
NoPass ==
    /\ episode_map = {}
    /\ unwatched = ignore
    /\ loaded_series = <<>>
    /\ trace = <<>>
    /\ deleted = {}
    /\ filtered_episodes = {}
    /\ db_before = <<>>
    /\ attempts = NoAttempts
    /\ accepted = {}
    /\ errors = {}
    /\ todo = <<>>

Init ==
    /\ pc = "off"
    /\ db = <<>>
    /\ old_file \in OldFiles
    /\ destination \in [Episodes -> Destinations]
    /\ isWatched \in [Episodes -> BOOLEAN]
    /\ episode_spoil_type = [e \in Episodes |-> "spoiled"]
    /\ NoPass
    /\ sync = [action |-> ignore, passes |-> 0]
    /\ sections = TRUE
    /\ found = [tvdb_id |-> FALSE, tmdb_id |-> FALSE, name |-> FALSE,
                full_name |-> FALSE]
    /\ series_info = [tvdb_id |-> FALSE, tmdb_id |-> FALSE]
    /\ series = NotResolved
    /\ workers = <<>>

\* a pass returns: its locals are gone
Return ==
    /\ episode_map' = {}
    /\ unwatched' = ignore
    /\ loaded_series' = <<>>
    /\ trace' = <<>>
    /\ deleted' = {}
    /\ filtered_episodes' = {}
    /\ db_before' = <<>>
    /\ attempts' = NoAttempts
    /\ accepted' = {}
    /\ errors' = {}
    /\ todo' = <<>>

(***************************************************************************)
(* __init__ and __import_old_db, lines 40-85.                              *)
(***************************************************************************)
\* lines 54-82: the database after the import and the step that follows
import_old_db(docs, file) ==
    IF ~file.exists \/ ~file.readable
    THEN [db |-> docs, pc |-> "idle"]
    ELSE IF \E i \in 1..Len(file.sizes) : ~KeyParses(file.sizes[i].episode_key)
    THEN [db |-> docs, pc |-> "ValueError"]
    ELSE [db |-> insert_multiple(docs, OldEntries(file.sizes)), pc |-> "import"]

\* a process starts and constructs its PlexInterface and its Episode objects
Startup ==
    /\ pc = "off"
    /\ db' = import_old_db(db, old_file).db
    /\ pc' = import_old_db(db, old_file).pc
    /\ episode_spoil_type' = [e \in Episodes |-> "spoiled"]
    /\ UNCHANGED <<old_file, world, episode_map, modify_vars, upload_vars,
                   todo, sync, resolve_vars, workers>>

\* Unlink leaving the old file where it is
Unlink_keeps_file ==
    /\ pc = "import"
    /\ pc' = "idle"
    /\ UNCHANGED <<db, old_file, world, episode_spoil_type, episode_map,
                   modify_vars, upload_vars, todo, sync, resolve_vars, workers>>

\* line 85: old_file.unlink()
Unlink ==
    /\ pc = "import"
    /\ old_file' = NoOldFile
    /\ pc' = "idle"
    /\ UNCHANGED <<db, world, episode_spoil_type, episode_map, modify_vars,
                   upload_vars, todo, sync, resolve_vars, workers>>

\* the process ends between two passes
Exit ==
    /\ pc = "idle"
    /\ pc' = "off"
    /\ UNCHANGED <<db, old_file, world, episode_spoil_type, episode_map,
                   modify_vars, upload_vars, todo, sync, resolve_vars, workers>>

\* the ValueError of line 71 or of line 261 is not caught: the process ends
Abort ==
    /\ pc = "ValueError"
    /\ pc' = "off"
    /\ unwatched' = ignore
    /\ UNCHANGED <<db, old_file, world, episode_spoil_type, episode_map,
                   loaded_series, trace, deleted, upload_vars, todo, sync,
                   resolve_vars, workers>>

(***************************************************************************)
(* The outside world, between two passes: a card is rendered anew or       *)
(* removed, an episode is watched or unwatched.                            *)
(***************************************************************************)
Render ==
    /\ pc = "idle"
    /\ \E e \in Episodes, size \in Destinations :
          /\ destination[e] # size
          /\ destination' = [destination EXCEPT ![e] = size]
    /\ UNCHANGED <<pc, db, old_file, isWatched, episode_spoil_type,
                   episode_map, modify_vars, upload_vars, todo, sync,
                   resolve_vars, workers>>

Watch ==
    /\ pc = "idle"
    /\ \E e \in Episodes :
          isWatched' = [isWatched EXCEPT ![e] = ~isWatched[e]]
    /\ UNCHANGED <<pc, db, old_file, destination, episode_spoil_type,
                   episode_map, modify_vars, upload_vars, todo, sync,
                   resolve_vars, workers>>

(***************************************************************************)
(* modify_unwatched_episodes, lines 242-327.                               *)
(***************************************************************************)
\* what the loop of lines 289-327 finds for one Plex episode with an Episode
\* object: the entry loaded for it and what is decided
decision(action, loaded, episode, watched) ==
    LET details == get_loaded_episode(loaded, episode)
        is_loaded == details # Nothing
        spoiler_status == IF is_loaded THEN details[1].spoiler ELSE None
    IN  [episode |-> episode,
         isWatched |-> watched,
         loaded |-> is_loaded,
         spoiler_status |-> spoiler_status,
         spoiler_free |-> needs_spoiler_free(action, watched),
         target |-> target_class(action, watched),
         reset |-> delete_and_reset(action, watched, spoiler_status) /\ is_loaded]

\* proceeds without the return of line 273: a series not found goes on
proceeds_without_series(map, library_found, show) ==
    map # {} /\ library_found

\* whether lines 263-273 let the pass go on
proceeds(map, library_found, show) ==
    map # {} /\ library_found /\ show # None

\* lines 259-286: the call; library_found and show are what __get_library
\* and __get_series answer
ModifyCall(map, action, library_found, show) ==
    /\ pc = "idle"
    /\ IF lower(action) \notin VALID_UNWATCHED_ACTIONS
       THEN /\ pc' = "ValueError"
            /\ unwatched' = lower(action)
            /\ UNCHANGED <<episode_map, loaded_series, trace, deleted, todo>>
       ELSE /\ pc' = "modify"
            /\ episode_map' = map
            /\ unwatched' = lower(action)
            /\ loaded_series' =
                   IF proceeds(map, library_found, show)
                   THEN search(db, get_condition(LIBRARY, SERIES, Nothing))
                   ELSE <<>>
            /\ todo' = IF proceeds(map, library_found, show)
                       THEN plex_episodes ELSE <<>>
            /\ UNCHANGED <<trace, deleted>>
    /\ UNCHANGED <<db, old_file, world, episode_spoil_type, upload_vars,
                   resolve_vars, workers>>

\* the episode maps given: the first episodes of the series, or none
Maps == {{Episode(1, n) : n \in 1..k} : k \in 0..MaxEpisode}

\* what __get_series can answer
Shows == {get_series(f, i).show : f \in Founds, i \in SeriesInfos}

ModifyBegin ==
    /\ \E map \in Maps, action \in Actions,
          library_found \in BOOLEAN, show \in Shows :
          ModifyCall(map, action, library_found, show)
    /\ UNCHANGED sync

\* lines 289-323: the next Plex episode, up to the deletion of its card
ModifyEpisode ==
    /\ pc = "modify"
    /\ todo # <<>>
    /\ LET episode == Head(todo)
           d == decision(unwatched, loaded_series, episode, isWatched[episode])
       IN  IF episode \notin episode_map
           THEN /\ todo' = Tail(todo)
                /\ UNCHANGED <<pc, episode_spoil_type, trace, deleted>>
           ELSE /\ trace' = Append(trace, d)
                /\ episode_spoil_type' =
                       IF d.spoiler_free
                       THEN [episode_spoil_type EXCEPT
                                ![episode] = make_spoiler_free(unwatched)]
                       ELSE episode_spoil_type
                /\ IF d.reset
                   THEN /\ deleted' = deleted \cup {episode}
                        /\ pc' = "reset"
                        /\ UNCHANGED todo
                   ELSE /\ todo' = Tail(todo)
                        /\ UNCHANGED <<pc, deleted>>
    /\ UNCHANGED <<db, old_file, world, episode_map, unwatched, loaded_series,
                   upload_vars, sync, resolve_vars, workers>>

\* lines 324-327: the size of the episode's entry is reset
ModifyReset ==
    /\ pc = "reset"
    /\ db' = update(db, [filesize |-> 0],
                    get_condition(LIBRARY, SERIES, Some(Head(todo))))
    /\ todo' = Tail(todo)
    /\ pc' = "modify"
    /\ UNCHANGED <<old_file, world, episode_spoil_type, episode_map,
                   modify_vars, upload_vars, sync, resolve_vars, workers>>

\* the call returns
ModifyReturn ==
    /\ pc = "modify"
    /\ todo = <<>>
    /\ pc' = "idle"
    /\ Return
    /\ UNCHANGED <<db, old_file, world, episode_spoil_type, sync, resolve_vars, workers>>

(***************************************************************************)
(* set_title_cards_for_series, lines 345-417.                              *)
(***************************************************************************)
\* lines 360-377
UploadCall(map, library_found, show) ==
    /\ pc = "idle"
    /\ pc' = "upload"
    /\ episode_map' = map
    /\ filtered_episodes' =
           filter_loaded_cards(db, LIBRARY, SERIES, map, destination)
    /\ todo' = IF proceeds(filtered_episodes', library_found, show)
               THEN plex_episodes ELSE <<>>
    /\ db_before' = db
    /\ UNCHANGED <<db, old_file, world, episode_spoil_type, modify_vars,
                   attempts, accepted, errors, resolve_vars, workers>>

UploadBegin ==
    /\ \E map \in Maps, library_found \in BOOLEAN, show \in Shows :
          UploadCall(map, library_found, show)
    /\ UNCHANGED sync

\* UploadEpisode without the skip of lines 383-384: every Plex episode that
\* has an Episode object is uploaded
UploadEpisode_every ==
    /\ pc = "upload"
    /\ todo # <<>>
    /\ LET episode == Head(todo)
       IN  IF episode \notin episode_map
           THEN UNCHANGED <<db, attempts, accepted, errors>>
           ELSE \E refusals \in 0..stop_after_attempt :
                   LET upload == retry_upload(refusals)
                   IN  /\ attempts' = [attempts EXCEPT ![episode] = upload.attempts]
                       /\ accepted' = IF refusals < stop_after_attempt
                                      THEN accepted \cup {episode}
                                      ELSE accepted
                       /\ IF upload.returned
                          THEN /\ db' = record_upload(db, LIBRARY, SERIES, episode,
                                                      destination[episode],
                                                      episode_spoil_type[episode])
                               /\ UNCHANGED errors
                          ELSE /\ errors' = errors \cup {episode}
                               /\ UNCHANGED db
    /\ todo' = Tail(todo)
    /\ UNCHANGED <<pc, old_file, world, episode_spoil_type, episode_map,
                   modify_vars, filtered_episodes, db_before, sync,
                   resolve_vars, workers>>

\* UploadEpisode with the update of the loaded map made before the upload:
\* the entry is written whether or not the upload returns
UploadEpisode_record_first ==
    /\ pc = "upload"
    /\ todo # <<>>
    /\ LET episode == Head(todo)
       IN  IF episode \notin filtered_episodes
           THEN UNCHANGED <<db, attempts, accepted, errors>>
           ELSE \E refusals \in 0..stop_after_attempt :
                   LET upload == retry_upload(refusals)
                   IN  /\ attempts' = [attempts EXCEPT ![episode] = upload.attempts]
                       /\ accepted' = IF refusals < stop_after_attempt
                                      THEN accepted \cup {episode}
                                      ELSE accepted
                       /\ db' = record_upload(db, LIBRARY, SERIES, episode,
                                              destination[episode],
                                              episode_spoil_type[episode])
                       /\ errors' = IF upload.returned
                                    THEN errors
                                    ELSE errors \cup {episode}
    /\ todo' = Tail(todo)
    /\ UNCHANGED <<pc, old_file, world, episode_spoil_type, episode_map,
                   modify_vars, filtered_episodes, db_before, sync,
                   resolve_vars, workers>>

\* lines 380-417 for the next Plex episode: the upload with its retries, then
\* the update of the loaded map or the error
UploadEpisode ==
    /\ pc = "upload"
    /\ todo # <<>>
    /\ LET episode == Head(todo)
       IN  IF episode \notin filtered_episodes
           THEN UNCHANGED <<db, attempts, accepted, errors>>
           ELSE \E refusals \in 0..stop_after_attempt :
                   LET upload == retry_upload(refusals)
                   IN  /\ attempts' = [attempts EXCEPT ![episode] = upload.attempts]
                       /\ accepted' = IF refusals < stop_after_attempt
                                      THEN accepted \cup {episode}
                                      ELSE accepted
                       /\ IF upload.returned
                          THEN /\ db' = record_upload(db, LIBRARY, SERIES, episode,
                                                      destination[episode],
                                                      episode_spoil_type[episode])
                               /\ UNCHANGED errors
                          ELSE /\ errors' = errors \cup {episode}
                               /\ UNCHANGED db
    /\ todo' = Tail(todo)
    /\ UNCHANGED <<pc, old_file, world, episode_spoil_type, episode_map,
                   modify_vars, filtered_episodes, db_before, sync,
                   resolve_vars, workers>>

\* the call returns
UploadReturn ==
    /\ pc = "upload"
    /\ todo = <<>>
    /\ pc' = "idle"
    /\ Return
    /\ UNCHANGED <<db, old_file, world, episode_spoil_type, sync, resolve_vars, workers>>

(***************************************************************************)
(* The program.                                                            *)
(***************************************************************************)
Next ==
    \/ Startup
    \/ Unlink
    \/ Exit
    \/ Abort
    \/ Render
    \/ Watch
    \/ ModifyBegin
    \/ ModifyEpisode
    \/ ModifyReset
    \/ ModifyReturn
    \/ UploadBegin
    \/ UploadEpisode
    \/ UploadReturn

Spec == Init /\ [][Next]_vars

(***************************************************************************)
(* Two syncs in a row of the whole series, nothing else happening: a sync  *)
(* is modify_unwatched_episodes followed by set_title_cards_for_series,    *)
(* with the library and the series found on Plex.                          *)
(***************************************************************************)
InitSync ==
    /\ pc = "off"
    /\ db = <<>>
    /\ old_file \in {f \in OldFiles : import_old_db(<<>>, f).pc # "ValueError"}
    /\ destination \in [Episodes -> Destinations]
    /\ isWatched \in [Episodes -> BOOLEAN]
    /\ episode_spoil_type = [e \in Episodes |-> "spoiled"]
    /\ NoPass
    /\ sync \in [action : VALID_UNWATCHED_ACTIONS, passes : {0}]
    /\ sections = TRUE
    /\ found = [tvdb_id |-> FALSE, tmdb_id |-> FALSE, name |-> FALSE,
                full_name |-> FALSE]
    /\ series_info = [tvdb_id |-> FALSE, tmdb_id |-> FALSE]
    /\ series = NotResolved
    /\ workers = <<>>

SyncModify ==
    /\ sync.passes \in {0, 2}
    /\ ModifyCall(Episodes, sync.action, TRUE, "name")
    /\ sync' = [sync EXCEPT !.passes = @ + 1]

SyncUpload ==
    /\ sync.passes \in {1, 3}
    /\ UploadCall(Episodes, TRUE, "name")
    /\ sync' = [sync EXCEPT !.passes = @ + 1]

NextSync ==
    \/ Startup
    \/ Unlink
    \/ SyncModify
    \/ ModifyEpisode
    \/ ModifyReset
    \/ ModifyReturn
    \/ SyncUpload
    \/ UploadEpisode
    \/ UploadReturn

SpecSync == InitSync /\ [][NextSync]_vars

\* the loop of lines 380-417 goes on by itself: each upload ends (tenacity
\* stops after the fifth attempt, its waits are finite) and the method returns
FairSync ==
    /\ SpecSync
    /\ WF_vars(UploadEpisode)
    /\ WF_vars(UploadReturn)

(***************************************************************************)
(* One sync of the whole series against a Plex server that has the library *)
(* or not, and finds the series under some of the four lookups or none.    *)
(***************************************************************************)
InitPlex ==
    /\ pc = "off"
    /\ db = <<>>
    /\ old_file \in {f \in OldFiles :
                        /\ import_old_db(<<>>, f).pc # "ValueError"
                        /\ Len(f.sizes) \in {0, MaxEpisode + 1}}
    /\ destination \in [Episodes -> Destinations]
    /\ isWatched = [e \in Episodes |-> FALSE]
    /\ episode_spoil_type = [e \in Episodes |-> "spoiled"]
    /\ NoPass
    /\ sync \in [action : VALID_UNWATCHED_ACTIONS, passes : {0}]
    /\ sections \in BOOLEAN
    /\ found \in Founds
    /\ series_info \in SeriesInfos
    /\ series = NotResolved
    /\ workers = <<>>

PlexModify ==
    /\ sync.passes = 0
    /\ ModifyCall(Episodes, sync.action, get_library(sections, LIBRARY) # None,
                  get_series(found, series_info).show)
    /\ sync' = [sync EXCEPT !.passes = @ + 1]

PlexUpload ==
    /\ sync.passes = 1
    /\ UploadCall(Episodes, get_library(sections, LIBRARY) # None,
                  get_series(found, series_info).show)
    /\ sync' = [sync EXCEPT !.passes = @ + 1]

NextPlex ==
    \/ Startup
    \/ Unlink
    \/ PlexModify
    \/ ModifyEpisode
    \/ ModifyReset
    \/ ModifyReturn
    \/ PlexUpload
    \/ UploadEpisode
    \/ UploadReturn

SpecPlex == InitPlex /\ [][NextPlex]_vars

(***************************************************************************)
(* A sync of the whole series during which the process is killed, then a   *)
(* new process and a complete sync.  sync.passes counts the passes begun:   *)
(* 1 and 2 before the kill, 3 once killed, 4 and 5 in the new process.      *)
(***************************************************************************)
CrashModify ==
    /\ sync.passes = 0
    /\ ModifyCall(Episodes, sync.action, TRUE, "name")
    /\ sync' = [sync EXCEPT !.passes = 1]

CrashUpload ==
    /\ sync.passes = 1
    /\ UploadCall(Episodes, TRUE, "name")
    /\ sync' = [sync EXCEPT !.passes = 2]

\* the process is killed between two steps of a pass: what it held in
\* memory is gone, the database and the files stay as they are
Crash ==
    /\ pc \in {"modify", "reset", "upload"}
    /\ sync.passes <= 2
    /\ pc' = "off"
    /\ Return
    /\ sync' = [sync EXCEPT !.passes = 3]
    /\ UNCHANGED <<db, old_file, world, episode_spoil_type, resolve_vars, workers>>

RecoveryModify ==
    /\ sync.passes = 3
    /\ ModifyCall(Episodes, sync.action, TRUE, "name")
    /\ sync' = [sync EXCEPT !.passes = 4]

RecoveryUpload ==
    /\ sync.passes = 4
    /\ UploadCall(Episodes, TRUE, "name")
    /\ sync' = [sync EXCEPT !.passes = 5]

NextCrash ==
    \/ Startup
    \/ Unlink
    \/ CrashModify
    \/ ModifyEpisode
    \/ ModifyReset
    \/ ModifyReturn
    \/ CrashUpload
    \/ UploadEpisode
    \/ UploadReturn
    \/ Crash
    \/ RecoveryModify
    \/ RecoveryUpload

SpecCrash == InitSync /\ [][NextCrash]_vars

(***************************************************************************)
(* Two processes at work at once on the first episode of the series, over  *)
(* the same loaded.json: the first in set_title_cards_for_series, the      *)
(* second in set_title_cards_for_series or in modify_unwatched_episodes.   *)
(* Nothing in PlexInterface locks the database; each call of TinyDB is     *)
(* taken as one step.                                                      *)
(***************************************************************************)
Workers == 1..2

\* the episode both processes work on
shared_episode == Episode(1, 1)

Worker(kind) ==
    [kind |-> kind, pc |-> "begin", loaded_series |-> <<>>,
     filtered_episodes |-> {}, attempts |-> 0, accepted |-> FALSE,
     error |-> FALSE, reset |-> FALSE]

InitWorkers ==
    /\ pc = "idle"
    /\ db \in {insert_multiple(<<>>, OldEntries(f.sizes)) :
                  f \in {g \in OldFiles : g.readable /\ Parses(g)}}
    /\ old_file = NoOldFile
    /\ destination \in [Episodes -> Destinations]
    /\ isWatched \in [Episodes -> BOOLEAN]
    /\ episode_spoil_type = [e \in Episodes |-> "spoiled"]
    /\ NoPass
    /\ sync \in [action : VALID_UNWATCHED_ACTIONS, passes : {0}]
    /\ sections = TRUE
    /\ found = [tvdb_id |-> FALSE, tmdb_id |-> FALSE, name |-> FALSE,
                full_name |-> FALSE]
    /\ series_info = [tvdb_id |-> FALSE, tmdb_id |-> FALSE]
    /\ series = NotResolved
    /\ workers \in {<<Worker("upload"), Worker(kind)>> :
                       kind \in {"upload", "modify"}}

\* what a step of a worker leaves alone
worker_frame ==
    UNCHANGED <<pc, old_file, world, episode_spoil_type, episode_map,
                modify_vars, upload_vars, todo, sync, resolve_vars>>

\* lines 361-368: the filter, and the return when nothing remains
WorkerFilter(w) ==
    /\ workers[w].kind = "upload"
    /\ workers[w].pc = "begin"
    /\ LET filtered == filter_loaded_cards(db, LIBRARY, SERIES,
                                          {shared_episode}, destination)
       IN  workers' = [workers EXCEPT
                         ![w].filtered_episodes = filtered,
                         ![w].pc = IF filtered = {} THEN "done" ELSE "upload"]
    /\ UNCHANGED db
    /\ worker_frame

\* lines 389-417: the upload with its retries, then the update of the loaded
\* map or the error
WorkerUpload(w) ==
    /\ workers[w].pc = "upload"
    /\ \E refusals \in 0..stop_after_attempt :
          LET upload == retry_upload(refusals)
          IN  /\ workers' = [workers EXCEPT
                                ![w].attempts = upload.attempts,
                                ![w].accepted = refusals < stop_after_attempt,
                                ![w].error = ~upload.returned,
                                ![w].pc = "done"]
              /\ db' = IF upload.returned
                       THEN record_upload(db, LIBRARY, SERIES, shared_episode,
                                          destination[shared_episode],
                                          episode_spoil_type[shared_episode])
                       ELSE db
    /\ worker_frame

\* line 284: the entries of the series are read
WorkerSearch(w) ==
    /\ workers[w].kind = "modify"
    /\ workers[w].pc = "begin"
    /\ workers' = [workers EXCEPT
                      ![w].loaded_series =
                          search(db, get_condition(LIBRARY, SERIES, Nothing)),
                      ![w].pc = "loop"]
    /\ UNCHANGED db
    /\ worker_frame

\* lines 289-322: the episode, up to the deletion of its card
WorkerDecide(w) ==
    /\ workers[w].pc = "loop"
    /\ LET d == decision(sync.action, workers[w].loaded_series,
                         shared_episode, isWatched[shared_episode])
       IN  workers' = [workers EXCEPT
                         ![w].pc = IF d.reset THEN "reset" ELSE "done"]
    /\ UNCHANGED db
    /\ worker_frame

\* lines 324-327: the size of the episode's entry is reset
WorkerReset(w) ==
    /\ workers[w].pc = "reset"
    /\ db' = update(db, [filesize |-> 0],
                    get_condition(LIBRARY, SERIES, Some(shared_episode)))
    /\ workers' = [workers EXCEPT ![w].reset = TRUE, ![w].pc = "done"]
    /\ worker_frame

NextWorkers ==
    \E w \in Workers :
        \/ WorkerFilter(w)
        \/ WorkerUpload(w)
        \/ WorkerSearch(w)
        \/ WorkerDecide(w)
        \/ WorkerReset(w)

SpecWorkers == InitWorkers /\ [][NextWorkers]_vars

(***************************************************************************)
(* Startups one after the other, with processes that end, raise, or are    *)
(* killed between the insert_multiple of line 82 and the unlink of line    *)
(* 85.  MaxImports bounds the imports of one old file.                     *)
(***************************************************************************)
MaxImports == 2

\* the process is killed after line 82 and before line 85
CrashImport ==
    /\ pc = "import"
    /\ Len(db) < MaxImports * Len(old_file.sizes)
    /\ pc' = "off"
    /\ UNCHANGED <<db, old_file, world, episode_spoil_type, episode_map,
                   modify_vars, upload_vars, todo, sync, resolve_vars, workers>>

NextRestart ==
    \/ Startup
    \/ Unlink
    \/ CrashImport
    \/ Exit
    \/ Abort

SpecRestart == Init /\ [][NextRestart]_vars

(***************************************************************************)
(* Two syncs in a row as in SpecSync, remembering in sync.taken whether    *)
(* Plex took the poster of every episode of the work set of each upload    *)
(* pass so far.                                                            *)
(***************************************************************************)
InitTaken ==
    /\ pc = "off"
    /\ db = <<>>
    /\ old_file \in {f \in OldFiles : import_old_db(<<>>, f).pc # "ValueError"}
    /\ destination \in [Episodes -> Destinations]
    /\ isWatched \in [Episodes -> BOOLEAN]
    /\ episode_spoil_type = [e \in Episodes |-> "spoiled"]
    /\ NoPass
    /\ sync \in [action : VALID_UNWATCHED_ACTIONS, passes : {0}, taken : {TRUE}]
    /\ sections = TRUE
    /\ found = [tvdb_id |-> FALSE, tmdb_id |-> FALSE, name |-> FALSE,
                full_name |-> FALSE]
    /\ series_info = [tvdb_id |-> FALSE, tmdb_id |-> FALSE]
    /\ series = NotResolved
    /\ workers = <<>>

\* the upload pass returns
TakenUploadReturn ==
    /\ pc = "upload"
    /\ todo = <<>>
    /\ pc' = "idle"
    /\ Return
    /\ sync' = [sync EXCEPT
                   !.taken = @ /\ accepted = filtered_episodes]
    /\ UNCHANGED <<db, old_file, world, episode_spoil_type, resolve_vars,
                   workers>>

NextTaken ==
    \/ Startup
    \/ Unlink
    \/ SyncModify
    \/ ModifyEpisode
    \/ ModifyReset
    \/ ModifyReturn
    \/ SyncUpload
    \/ UploadEpisode
    \/ TakenUploadReturn

SpecTaken == InitTaken /\ [][NextTaken]_vars

(***************************************************************************)
(* Series resolution on its own: __get_series for every SeriesInfo and     *)
(* every library.                                                          *)
(***************************************************************************)
InitResolve ==
    /\ pc = "idle"
    /\ db = <<>>
    /\ old_file = NoOldFile
    /\ destination = [e \in Episodes |-> NoFile]
    /\ isWatched = [e \in Episodes |-> FALSE]
    /\ episode_spoil_type = [e \in Episodes |-> "spoiled"]
    /\ NoPass
    /\ sync = [action |-> ignore, passes |-> 0]
    /\ sections = TRUE
    /\ found \in Founds
    /\ series_info \in SeriesInfos
    /\ series = NotResolved
    /\ workers = <<>>

Resolve ==
    /\ series = NotResolved
    /\ workers = <<>>
    /\ series' = get_series(found, series_info)
    /\ UNCHANGED <<pc, db, old_file, world, episode_spoil_type, episode_map,
                   modify_vars, upload_vars, todo, sync, sections, found,
                   series_info, workers>>

NextResolve == Resolve

SpecResolve == InitResolve /\ [][NextResolve]_vars

(***************************************************************************)
(* Properties.                                                             *)
(***************************************************************************)
\* the condition of one episode of the series
episode_condition(episode) == get_condition(LIBRARY, SERIES, Some(episode))

\* the entries of the database for one episode of the series
entries_of(docs, episode) == search(docs, episode_condition(episode))

\* the decisions of the spoiler pass that have been carried out
Decided == {trace[i] : i \in 1..Len(trace)}

\* C1: when a sync of the series (modify_unwatched_episodes, then
\* set_title_cards_for_series) is run twice in a row and nothing changes in
\* between, the second run attempts no upload.
C1_SecondSyncUploadsNothing ==
    sync.passes = 4 => \A e \in Episodes : attempts[e] = 0

\* C2: an episode of the work set whose poster Plex takes within the five
\* attempts has, once the pass has visited it, an entry under its key with
\* the size of its card file and the class of its Episode object.
C2_AcceptedUploadIsRecorded ==
    pc = "upload" =>
        \A e \in accepted :
            /\ entries_of(db, e) # <<>>
            /\ \A i \in 1..Len(entries_of(db, e)) :
                  /\ entries_of(db, e)[i].filesize = destination[e]
                  /\ entries_of(db, e)[i].spoiler = episode_spoil_type[e]

\* C3: an episode whose upload failed on all 5 attempts has its entries (or
\* their absence) as they were when the pass began, is the only one an error
\* is logged for, does not stop the pass from visiting the episodes after it,
\* and is in the work set the filter computes next.
C3_FailedUploadLeavesStore ==
    pc = "upload" =>
        /\ \A e \in errors :
              /\ attempts[e] = 5
              /\ entries_of(db, e) = entries_of(db_before, e)
              /\ e \in filter_loaded_cards(db, LIBRARY, SERIES, episode_map,
                                          destination)
        /\ errors = {e \in filtered_episodes : attempts[e] > 0}
        /\ todo = <<>> /\ errors # {} =>
              \A e \in filtered_episodes : attempts[e] > 0

C3_Witness ==
    /\ pc = "upload"
    /\ todo = <<>>
    /\ errors = Episodes
    /\ \E e \in errors : entries_of(db, e) # <<>>

WasReset(d) ==
    /\ d.episode \in deleted
    /\ \A i \in 1..Len(entries_of(db, d.episode)) :
          entries_of(db, d.episode)[i].filesize = 0

\* C5 as claimed: for every episode the spoiler pass has dealt with, when
\* the class asked for differs from the class recorded (an episode with no
\* entry counting as spoiled), the card is deleted and the entry reset.
C5_TransitionWithNoEntryAsSpoiled ==
    pc = "modify" =>
        \A d \in Decided :
            d.target # (IF d.loaded THEN d.spoiler_status ELSE "spoiled")
            => WasReset(d)

\* C5 as it holds: for every episode the spoiler pass has dealt with that
\* has an entry, when the class asked for differs from the class recorded
\* the card is deleted and the entry reset; for an episode with no entry no
\* card is deleted.
C5_TransitionOfLoadedEpisodes ==
    pc = "modify" =>
        \A d \in Decided :
            /\ d.loaded /\ d.target # d.spoiler_status => WasReset(d)
            /\ ~d.loaded => d.episode \notin deleted

C5_Witness ==
    /\ pc = "modify"
    /\ \E d \in Decided :
          /\ d.loaded
          /\ d.target # d.spoiler_status
          /\ WasReset(d)
    /\ \E d \in Decided : ~d.loaded /\ d.target # "spoiled"

\* C6: the class the spoiler pass asks for: spoiled under ignore, art under
\* art_all, under blur spoiled for a watched episode and blur for an
\* unwatched one; spoiler-free exactly when the action is art_all or
\* blur_all, or is not ignore and the episode is unwatched, and then art
\* exactly when the action has "art" in its name.
C6_TargetClass ==
    \A d \in Decided :
        /\ unwatched = ignore => d.target = "spoiled"
        /\ unwatched = art_all => d.target = "art"
        /\ unwatched = blur =>
              d.target = (IF d.isWatched THEN "spoiled" ELSE "blur")
        /\ d.target \in {"blur", "art"} <=>
              \/ unwatched \in {art_all, blur_all}
              \/ unwatched # ignore /\ ~d.isWatched
        /\ d.target \in {"blur", "art"} =>
              (d.target = "art" <=> unwatched \in {art, art_all})
        /\ d.target \notin {"blur", "art"} => d.target = "spoiled"

C6_Witness ==
    /\ unwatched = blur
    /\ \E d \in Decided : ~d.isWatched /\ d.target = "blur"
    /\ \E d \in Decided : d.isWatched /\ d.target = "spoiled"

\* C7: the filter leaves out every episode whose entry records the size of
\* its card file and the class of its Episode object.
C7_UnchangedCardExcluded ==
    pc = "upload" =>
        \A e \in episode_map :
            /\ entries_of(db_before, e) # <<>>
            /\ entries_of(db_before, e)[1].filesize = destination[e]
            /\ entries_of(db_before, e)[1].spoiler = episode_spoil_type[e]
            => e \notin filtered_episodes

C7_Witness ==
    /\ pc = "upload"
    /\ filtered_episodes # {}
    /\ \E e \in episode_map :
          /\ entries_of(db_before, e) # <<>>
          /\ entries_of(db_before, e)[1].filesize = destination[e]
          /\ entries_of(db_before, e)[1].spoiler = episode_spoil_type[e]
          /\ e \notin filtered_episodes

\* the four lookups in the order the series is to be looked for
LookupOrder == <<"tvdb_id", "tmdb_id", "name", "full_name">>

\* a lookup by an identifier the SeriesInfo does not have cannot be made
CanLookup(k) ==
    CASE k = "tvdb_id" -> series_info.tvdb_id
      [] k = "tmdb_id" -> series_info.tmdb_id
      [] OTHER -> TRUE

\* C8: the lookups are made in the order TVDb id, TMDb id, name, full name;
\* the show of the first lookup that finds one is returned and no lookup is
\* made after it; a lookup that finds nothing is followed by the next one;
\* the result is None only when no lookup finds a show.
C8_FirstHitInOrder ==
    series # NotResolved =>
        LET possible == SelectSeq(LookupOrder, CanLookup)
            hits == {i \in 1..Len(possible) : found[possible[i]]}
            first == CHOOSE i \in hits : \A j \in hits : i <= j
        IN  IF hits = {}
            THEN series.lookups = possible /\ series.show = None
            ELSE /\ series.lookups = SubSeq(possible, 1, first)
                 /\ series.show = possible[first]

C8_Witness ==
    /\ series.show = "full_name"
    /\ series.lookups = LookupOrder
    /\ found.full_name /\ ~found.name

IsEntryOf(doc, row) ==
    /\ doc.library = row.library
    /\ doc.series = row.series
    /\ \E season, episode \in 0..9 :
          /\ row.episode_key = ep_key(season, episode)
          /\ doc.season = season
          /\ doc.episode = episode
    /\ doc.filesize = row.filesize
    /\ doc.spoiler = "spoiled"

\* C10: once the rows of the old file are imported the database holds one
\* entry per row, with the row's library, series, season, episode and size
\* and the tag "spoiled", and the step that follows removes the old file and
\* leaves the database as it is.
C10_OldFileImported ==
    /\ [](pc = "import" =>
            /\ Len(db) = Len(old_file.sizes)
            /\ \A i \in 1..Len(db) : IsEntryOf(db[i], old_file.sizes[i]))
    /\ [][pc = "import" => ~old_file'.exists /\ db' = db]_vars

C10_Witness ==
    /\ pc = "idle"
    /\ ~old_file.exists
    /\ Len(db) = 3
    /\ \E i, j \in 1..Len(db) : db[i].library # db[j].library
    /\ \A i \in 1..Len(db) : db[i].spoiler = "spoiled"

\* C11: a startup that finds an old file it cannot read or parse raises no
\* error, adds no entry to the database and leaves the old file in place.
C11_ImportFailureSwallowed ==
    [][pc = "off" /\ old_file.exists /\ ~Parses(old_file)
          => pc' = "idle" /\ db' = db /\ old_file' = old_file]_vars

\* C12: modify_unwatched_episodes given an action outside ignore, blur, art,
\* blur_all, art_all raises: the pass never runs under such an action (nor
\* under a default in its place), and the call that raises reads no Plex
\* episode, deletes no card and writes nothing to the database.
C12_InvalidActionRaises ==
    /\ [](pc \in {"modify", "reset"}
            => unwatched \in {ignore, blur, art, blur_all, art_all})
    /\ [][pc = "idle" /\ unwatched' \notin {ignore, blur, art, blur_all, art_all}
            => /\ pc' = "ValueError"
               /\ db' = db
               /\ deleted' = {} /\ trace' = <<>> /\ todo' = <<>>
               /\ episode_spoil_type' = episode_spoil_type]_vars

C12_Witness ==
    /\ pc = "ValueError"
    /\ unwatched = <<"n", "o", "n", "e">>
    /\ db # <<>>
    /\ \E e \in Episodes : destination[e] # NoFile

\* whether the library or the series is not found on Plex
Miss ==
    \/ get_library(sections, LIBRARY) = None
    \/ get_series(found, series_info).show = None

\* C13: when the library or the series is not found on Plex, neither pass
\* does any work: no upload is attempted, no card is deleted, no episode is
\* looked at, the database is not written, and no error is raised.
C13_MissDoesNoWork ==
    /\ [](Miss => /\ \A e \in Episodes : attempts[e] = 0
                  /\ deleted = {} /\ trace = <<>> /\ errors = {}
                  /\ todo = <<>>
                  /\ pc # "ValueError")
    /\ [][Miss /\ pc \notin {"off", "import"} => db' = db]_vars

C13_Witness ==
    /\ Miss
    /\ sync.passes = 2
    /\ pc = "idle"
    /\ db # <<>>
    /\ \E e \in Episodes : destination[e] # NoFile

\* C14: after a process was killed during a pass, a complete sync in which
\* Plex takes every poster at the first attempt ends with every episode that
\* has a card file having one entry, with the size of that file and the
\* class of its Episode object.
C14_SyncAfterCrashHeals ==
    /\ sync.passes = 5
    /\ pc = "upload"
    /\ todo = <<>>
    /\ accepted = filtered_episodes
    => \A e \in Episodes :
          destination[e] # NoFile
          => /\ Len(entries_of(db, e)) = 1
             /\ entries_of(db, e)[1].filesize = destination[e]
             /\ entries_of(db, e)[1].spoiler = episode_spoil_type[e]

\* C15: when two processes have worked at once on the same episode, one at
\* least uploading its card with Plex taking the poster, the database ends
\* with exactly one entry for that episode, holding what one of them wrote:
\* the size of the card file, or 0 if the other process reset the entry.
C15_ConcurrentWritesSerialized ==
    /\ workers # <<>>
    /\ \A w \in Workers : workers[w].pc = "done"
    /\ \E w \in Workers : workers[w].accepted
    => /\ Len(entries_of(db, shared_episode)) = 1
       /\ \/ entries_of(db, shared_episode)[1].filesize =
                 destination[shared_episode]
          \/ /\ \E w \in Workers : workers[w].reset
             /\ entries_of(db, shared_episode)[1].filesize = 0

\* C16: an episode the spoiler pass finds loaded with the class it asks for
\* is left alone: its card is not deleted and its entries are as the pass
\* found them; a card is deleted and its entry reset only when the class
\* asked for differs from the class the entry records.
C16_NoSpuriousTransition ==
    \A d \in Decided :
        /\ d.loaded /\ d.target = d.spoiler_status
           => /\ ~d.reset
              /\ d.episode \notin deleted
              /\ entries_of(db, d.episode) = entries_of(loaded_series, d.episode)
        /\ d.reset => d.loaded /\ d.target # d.spoiler_status

C16_Witness ==
    /\ pc = "modify"
    /\ todo = <<>>
    /\ deleted # {}
    /\ \E d \in Decided :
          d.loaded /\ d.target = d.spoiler_status /\ d.episode \notin deleted

\* the entries of the series the upload pass found in the database
series_before == search(db_before, get_condition(LIBRARY, SERIES, Nothing))

\* C17: the filter never includes an episode without a card file, and it
\* includes every episode that has a card file and no entry, whether the
\* series has no entry at all or entries of other episodes only.
C17_FilterNoCardNoEntry ==
    pc = "upload" =>
        \A e \in episode_map :
            /\ destination[e] = NoFile => e \notin filtered_episodes
            /\ destination[e] # NoFile /\ entries_of(db_before, e) = <<>>
               => e \in filtered_episodes

C17_Witness ==
    /\ pc = "upload"
    /\ series_before # <<>>
    /\ \E e \in filtered_episodes : entries_of(db_before, e) = <<>>
    /\ \E e \in episode_map : destination[e] = NoFile

\* whether a document is the entry of an episode of the series
IsKeyOf(doc, episode) ==
    /\ doc.library = LIBRARY
    /\ doc.series = SERIES
    /\ doc.season = episode.season_number
    /\ doc.episode = episode.episode_number

\* the step writes nothing but 0 in the filesize of the entries of the
\* episode being reset
ResetOnly ==
    /\ Len(db') = Len(db)
    /\ \A i \in 1..Len(db) :
          IF pc = "reset" /\ IsKeyOf(db[i], Head(todo))
          THEN db'[i] = [db[i] EXCEPT !.filesize = 0]
          ELSE db'[i] = db[i]

\* C18: the reset of an entry sets the filesize of the entries of that key
\* to 0 and changes nothing else: not the class of that entry, not an entry
\* of another key; and the spoiler pass writes the database in no other way.
C18_ResetChangesOnlyFilesize ==
    [][(pc \in {"modify", "reset"}) => ResetOnly]_vars

C18_Witness ==
    /\ pc = "modify"
    /\ \E e \in deleted : \E i \in 1..Len(db) :
          /\ IsKeyOf(db[i], e)
          /\ db[i].filesize = 0
          /\ db[i].spoiler = "spoiled"
    /\ \E j \in 1..Len(db) :
          /\ db[j].library = OTHER_LIBRARY
          /\ db[j].season = 1 /\ db[j].episode = 1
          /\ db[j].filesize # 0

\* C19: a Plex episode that is not in the filtered episodes is not uploaded
\* by the upload pass, no error is logged for it, and its entries stay as
\* they were.
C19_NoUploadOutsideWorkSet ==
    pc = "upload" =>
        \A e \in Episodes \ filtered_episodes :
            /\ attempts[e] = 0
            /\ e \notin errors
            /\ entries_of(db, e) = entries_of(db_before, e)

C19_Witness ==
    /\ pc = "upload"
    /\ todo = <<>>
    /\ \E e \in filtered_episodes : attempts[e] > 0
    /\ \E e \in episode_map \ filtered_episodes : destination[e] # NoFile

\* every key of the database is still there after the step
KeysKept ==
    \A i \in 1..Len(db) : \E j \in 1..Len(db') :
        /\ db'[j].library = db[i].library
        /\ db'[j].series = db[i].series
        /\ db'[j].season = db[i].season
        /\ db'[j].episode = db[i].episode

\* C20: no step removes a key from the database; an episode whose card the
\* spoiler pass deleted keeps its entry, with filesize 0 once it is reset.
C20_KeysNeverRemoved ==
    /\ [][KeysKept]_vars
    /\ [](\A e \in deleted :
             /\ \E i \in 1..Len(db) : IsKeyOf(db[i], e)
             /\ (pc = "reset" /\ e = Head(todo))
                \/ \A i \in 1..Len(db) : IsKeyOf(db[i], e) => db[i].filesize = 0)

C20_Witness ==
    /\ pc = "idle"
    /\ \E i \in 1..Len(db) : db[i].filesize = 0 /\ db[i].library = LIBRARY
    /\ \E i \in 1..Len(db) : db[i].filesize # 0 /\ db[i].library = LIBRARY

\* C21: the upload pass makes at most 5 attempts for an episode; an episode
\* of the work set it has visited is either recorded with the size of its
\* card or skipped with an error; and the pass always returns, even when
\* every attempt of every episode fails.
C21_UploadPassTerminates ==
    /\ [](\A e \in Episodes : attempts[e] <= 5)
    /\ [](pc = "upload" /\ todo = <<>>
            => \A e \in filtered_episodes :
                  /\ attempts[e] >= 1
                  /\ \/ e \in errors
                     \/ /\ entries_of(db, e) # <<>>
                        /\ entries_of(db, e)[1].filesize = destination[e])
    /\ (pc = "upload") ~> (pc = "idle")

C21_Witness ==
    /\ pc = "upload"
    /\ todo = <<>>
    /\ filtered_episodes = Episodes
    /\ accepted = {}
    /\ \A e \in Episodes : attempts[e] = 5 /\ e \in errors

\* how many documents of the database are the entry of a row of the old file
imported(row) == Len(SelectSeq(db, LAMBDA doc : doc = OldEntry(row)))

\* C22: whatever the startups before (processes that ended, that failed to
\* parse the old file, or that were killed between the insert of the rows
\* and the deletion of the file), no row of the old file is in the database
\* more than once.
C22_RowImportedAtMostOnce ==
    old_file.exists /\ Parses(old_file)
    => \A k \in 1..Len(old_file.sizes) : imported(old_file.sizes[k]) <= 1

\* whether document i of the database is new, or has a new filesize or class
Written(i) ==
    \/ i > Len(db)
    \/ db'[i].filesize # db[i].filesize
    \/ db'[i].spoiler # db[i].spoiler

\* a step that writes a nonzero filesize or a class is not the spoiler pass:
\* it is the import, or the step of the upload pass for the episode of that
\* key, whose upload has returned (no error, at most 5 attempts, Plex having
\* taken the poster)
WrittenAfterUpload ==
    \A i \in 1..Len(db') :
        Written(i) /\ (i > Len(db) \/ db'[i].filesize # 0
                          \/ db'[i].spoiler # db[i].spoiler)
        => \/ pc = "off"
           \/ /\ pc = "upload"
              /\ todo # <<>>
              /\ IsKeyOf(db'[i], Head(todo))
              /\ Head(todo) \in filtered_episodes
              /\ Head(todo) \in accepted'
              /\ Head(todo) \notin errors'
              /\ attempts'[Head(todo)] \in 1..5
              /\ db'[i].filesize = destination[Head(todo)]

\* C23: but for the import, an entry gets a nonzero filesize or a class only
\* in the upload pass and only once the upload of that episode's card has
\* returned; an episode whose upload failed keeps the entries it had.
C23_WrittenOnlyAfterUpload ==
    /\ [][WrittenAfterUpload]_vars
    /\ [](pc = "upload"
            => \A e \in errors : entries_of(db, e) = entries_of(db_before, e))

C23_Witness ==
    /\ pc = "upload"
    /\ \E e \in errors :
          /\ e \in accepted
          /\ destination[e] > 0
          /\ entries_of(db, e) # <<>>
          /\ entries_of(db, e)[1].filesize = 0

\* C24: after a complete sync in which every episode had a card to upload
\* and Plex took every poster, a second spoiler pass under the same action
\* and the same watched states deletes no card and resets no entry.
C24_SecondPassDeletesNothing ==
    /\ sync.passes = 3
    /\ sync.taken
    /\ \A e \in Episodes : destination[e] > 0
    => /\ deleted = {}
       /\ pc # "reset"
       /\ \A d \in Decided : ~d.reset

====
